---- MODULE Spec2Model ----
(***************************************************************************)
(* Model of the autojoin plugin's userCreated handler                      *)
(* (plugins/autojoin/girder_autojoin/__init__.py).  Each delivery of the   *)
(* 'model.user.save.created' event runs userCreated once; the model runs   *)
(* a fixed set of such invocations, interleaved at the granularity of the  *)
(* handler's calls into its collaborators (Setting().get, Group().load,    *)
(* Group().addUser).                                                       *)
(***************************************************************************)
EXTENDS Integers, Sequences, FiniteSets

\* Longest stored rule list explored.
MaxRules == 2

\* Handler invocations, numbered in the order their events are delivered.
Procs == {1, 2}

\* ------------------------------------------------------------------ data

\* Strings are sequences of one-character strings.
\* str.lower() on one character.
LowerChar(c) == CASE c = "A" -> "a"
                  [] c = "B" -> "b"
                  [] OTHER -> c

\* str.lower(): every character lower-cased, length and order kept.
Lower(s) == [k \in 1..Len(s) |-> LowerChar(s[k])]

\* Python's `pat in s` on strings: pat occurs as a contiguous run of s.
Contains(pat, s) ==
  \E k \in 0..(Len(s) - Len(pat)) : SubSeq(s, k + 1, k + Len(pat)) = pat

\* User documents carried by the event (event.info).  u3 has no email key.
Users == {"u1", "u2", "u3"}

UserDoc(u) == CASE u = "u1" -> [login |-> "u1", email |-> <<"A", "b">>]
                [] u = "u2" -> [login |-> "u2", email |-> <<"B">>]
                [] OTHER    -> [login |-> "u3"]

\* Group ids a rule may name; only those in Groups resolve to a group.
GroupIds == {1, 2, 3}
Groups == {1, 2}

\* Access levels a rule may grant (READ, WRITE).
Levels == {0, 1}

Patterns == {<< >>, <<"A">>}

\* The (groupId, level) pairs the stored rules use.
Targets == {<<1, 0>>, <<1, 1>>, <<2, 0>>, <<3, 1>>}

RulesWithPattern ==
  {[pattern |-> pt, groupId |-> t[1], level |-> t[2]] : pt \in Patterns, t \in Targets}
\* A rule is a dict; one without a 'pattern' key is a dict lacking that key.
RulesNoPattern == [groupId : {2}, level : {1}]
Rules == RulesWithPattern \cup RulesNoPattern

RuleSets == UNION {[1..n -> Rules] : n \in 0..MaxRules}

NoUser == "none"
NoGroup == 0

VARIABLES
  setting,   \* the stored AUTOJOIN setting: the rule list
  members,   \* membership store: members[u][g] = levels of u's records in g
  pc,        \* each invocation's position in userCreated
  user,      \* each invocation's event.info (a user id)
  email,     \* each invocation's local `email`
  rules,     \* each invocation's local `rules`
  idx,       \* each invocation's position of the for loop in `rules`
  group,     \* each invocation's local `group`
  log        \* each invocation's calls so far, in order

vars == <<setting, members, pc, user, email, rules, idx, group, log>>

Max(a, b) == IF a >= b THEN a ELSE b

NoMembers == [u \in Users |-> [g \in Groups |-> << >>]]

\* ------------------------------------------------------ collaborators

\* Group().load(id, force=True): the group document, or None (NoGroup).
Load(gid) == IF gid \in Groups THEN gid ELSE NoGroup

AddUserOverwrite(m, g, u, level) == [m EXCEPT ![u][g] = <<level>>]

\* Group().addUser(group, user, level): idempotent add, never a downgrade,
\* never a second record for the same (user, group).
AddUser(m, g, u, level) ==
  [m EXCEPT ![u][g] = IF @ = << >> THEN <<level>> ELSE <<Max(@[1], level)>>]

\* ------------------------------------------------------------ handler

EventUserShared(p) == IF user[1] # NoUser THEN user[1] ELSE user[p]

\* user = event.info
EventUser(p) == user[p]

MatchesCaseSensitive(rule, em) == Contains(rule.pattern, em)

MatchesNonEmpty(rule, em) ==
  rule.pattern # << >> /\ Contains(Lower(rule.pattern), em)

\* not (rule['pattern'].lower() not in email)
Matches(rule, em) == Contains(Lower(rule.pattern), em)

AdvanceSkip(i) == i + 2

\* the for loop moves to the next rule
Advance(i) == i + 1

Ev(o, i, r) == [op |-> o, i |-> i, res |-> r]

Init ==
  /\ setting \in RuleSets
  /\ members = NoMembers
  /\ pc = [p \in Procs |-> "idle"]
  /\ user = [p \in Procs |-> NoUser]
  /\ email = [p \in Procs |-> << >>]
  /\ rules = [p \in Procs |-> << >>]
  /\ idx = [p \in Procs |-> 0]
  /\ group = [p \in Procs |-> NoGroup]
  /\ log = [p \in Procs |-> << >>]

\* The event is delivered: userCreated(event) is entered with event.info = u.
UserCreated(p, u) ==
  /\ pc[p] = "idle"
  /\ \A q \in Procs : q < p => pc[q] # "idle"
  /\ user' = [user EXCEPT ![p] = u]
  /\ pc' = [pc EXCEPT ![p] = "l17"]
  /\ UNCHANGED <<setting, members, email, rules, idx, group, log>>

GetEmailSkip(p) ==
  /\ pc[p] = "l17"
  /\ IF "email" \in DOMAIN UserDoc(EventUser(p))
       THEN /\ email' = [email EXCEPT ![p] = Lower(UserDoc(EventUser(p)).email)]
            /\ pc' = [pc EXCEPT ![p] = "l18"]
       ELSE /\ pc' = [pc EXCEPT ![p] = "done"]
            /\ UNCHANGED email
  /\ UNCHANGED <<setting, members, user, rules, idx, group, log>>

\* email = user.get('email').lower(): None.lower() raises when email is absent.
GetEmail(p) ==
  /\ pc[p] = "l17"
  /\ IF "email" \in DOMAIN UserDoc(EventUser(p))
       THEN /\ email' = [email EXCEPT ![p] = Lower(UserDoc(EventUser(p)).email)]
            /\ pc' = [pc EXCEPT ![p] = "l18"]
       ELSE /\ pc' = [pc EXCEPT ![p] = "raised"]
            /\ UNCHANGED email
  /\ UNCHANGED <<setting, members, user, rules, idx, group, log>>

GetRulesPop(p) ==
  /\ pc[p] = "l18"
  /\ rules' = [rules EXCEPT ![p] = setting]
  /\ setting' = IF setting = << >> THEN setting ELSE Tail(setting)
  /\ idx' = [idx EXCEPT ![p] = 1]
  /\ log' = [log EXCEPT ![p] = Append(@, Ev("rules", 0, "ok"))]
  /\ pc' = [pc EXCEPT ![p] = "l19"]
  /\ UNCHANGED <<members, user, email, group>>

\* rules = Setting().get(PluginSettings.AUTOJOIN)
GetRules(p) ==
  /\ pc[p] = "l18"
  /\ rules' = [rules EXCEPT ![p] = setting]
  /\ idx' = [idx EXCEPT ![p] = 1]
  /\ log' = [log EXCEPT ![p] = Append(@, Ev("rules", 0, "ok"))]
  /\ pc' = [pc EXCEPT ![p] = "l19"]
  /\ UNCHANGED <<setting, members, user, email, group>>

\* for rule in rules: exhausted, the handler returns.
LoopExit(p) ==
  /\ pc[p] = "l19"
  /\ idx[p] > Len(rules[p])
  /\ pc' = [pc EXCEPT ![p] = "done"]
  /\ UNCHANGED <<setting, members, user, email, rules, idx, group, log>>

\* if rule['pattern'].lower() not in email: continue
\* rule['pattern'] raises KeyError when the rule has no 'pattern' key.
TestRule(p) ==
  /\ pc[p] = "l19"
  /\ idx[p] <= Len(rules[p])
  /\ LET rule == rules[p][idx[p]] IN
       IF "pattern" \notin DOMAIN rule
         THEN /\ pc' = [pc EXCEPT ![p] = "raised"]
              /\ log' = [log EXCEPT ![p] = Append(@, Ev("test", idx[p], "error"))]
              /\ UNCHANGED idx
         ELSE IF Matches(rule, email[p])
           THEN /\ pc' = [pc EXCEPT ![p] = "l22"]
                /\ log' = [log EXCEPT ![p] = Append(@, Ev("test", idx[p], "match"))]
                /\ UNCHANGED idx
           ELSE /\ pc' = [pc EXCEPT ![p] = "l19"]
                /\ log' = [log EXCEPT ![p] = Append(@, Ev("test", idx[p], "skip"))]
                /\ idx' = [idx EXCEPT ![p] = Advance(@)]
  /\ UNCHANGED <<setting, members, user, email, rules, group>>

LoadGroupExc(p) ==
  /\ pc[p] = "l22"
  /\ LET g == Load(rules[p][idx[p]].groupId) IN
       /\ group' = [group EXCEPT ![p] = g]
       /\ IF g # NoGroup
            THEN /\ pc' = [pc EXCEPT ![p] = "l24"]
                 /\ log' = [log EXCEPT ![p] = Append(@, Ev("load", idx[p], "found"))]
                 /\ UNCHANGED idx
            ELSE /\ pc' = [pc EXCEPT ![p] = "raised"]
                 /\ log' = [log EXCEPT ![p] = Append(@, Ev("load", idx[p], "none"))]
                 /\ UNCHANGED idx
  /\ UNCHANGED <<setting, members, user, email, rules>>

\* group = Group().load(rule['groupId'], force=True); if group: ...
LoadGroup(p) ==
  /\ pc[p] = "l22"
  /\ LET g == Load(rules[p][idx[p]].groupId) IN
       /\ group' = [group EXCEPT ![p] = g]
       /\ IF g # NoGroup
            THEN /\ pc' = [pc EXCEPT ![p] = "l24"]
                 /\ log' = [log EXCEPT ![p] = Append(@, Ev("load", idx[p], "found"))]
                 /\ UNCHANGED idx
            ELSE /\ pc' = [pc EXCEPT ![p] = "l19"]
                 /\ log' = [log EXCEPT ![p] = Append(@, Ev("load", idx[p], "none"))]
                 /\ idx' = [idx EXCEPT ![p] = Advance(@)]
  /\ UNCHANGED <<setting, members, user, email, rules>>

AddUserBreak(p) ==
  /\ pc[p] = "l24"
  /\ members' = AddUser(members, group[p], EventUser(p), rules[p][idx[p]].level)
  /\ log' = [log EXCEPT ![p] = Append(@, Ev("add", idx[p], "ok"))]
  /\ idx' = [idx EXCEPT ![p] = Advance(@)]
  /\ pc' = [pc EXCEPT ![p] = "done"]
  /\ UNCHANGED <<setting, user, email, rules, group>>

\* Group().addUser(group, user, rule['level']) returns.
AddUserOk(p) ==
  /\ pc[p] = "l24"
  /\ members' = AddUser(members, group[p], EventUser(p), rules[p][idx[p]].level)
  /\ log' = [log EXCEPT ![p] = Append(@, Ev("add", idx[p], "ok"))]
  /\ idx' = [idx EXCEPT ![p] = Advance(@)]
  /\ pc' = [pc EXCEPT ![p] = "l19"]
  /\ UNCHANGED <<setting, user, email, rules, group>>

AddUserSwallowed(p) ==
  /\ pc[p] = "l24"
  /\ log' = [log EXCEPT ![p] = Append(@, Ev("add", idx[p], "error"))]
  /\ idx' = [idx EXCEPT ![p] = Advance(@)]
  /\ pc' = [pc EXCEPT ![p] = "l19"]
  /\ UNCHANGED <<setting, members, user, email, rules, group>>

\* Group().addUser(...) raises: nothing in userCreated catches it.
AddUserRaises(p) ==
  /\ pc[p] = "l24"
  /\ log' = [log EXCEPT ![p] = Append(@, Ev("add", idx[p], "error"))]
  /\ pc' = [pc EXCEPT ![p] = "raised"]
  /\ UNCHANGED <<setting, members, user, email, rules, idx, group>>

Next ==
  \/ \E p \in Procs, u \in Users : UserCreated(p, u)
  \/ \E p \in Procs : GetEmail(p)
  \/ \E p \in Procs : GetRules(p)
  \/ \E p \in Procs : LoopExit(p)
  \/ \E p \in Procs : TestRule(p)
  \/ \E p \in Procs : LoadGroup(p)
  \/ \E p \in Procs : AddUserOk(p)
  \/ \E p \in Procs : AddUserRaises(p)

Spec == Init /\ [][Next]_vars

\* ------------------------------------------------- vocabulary of the claims

\* The rule's pattern is a case-insensitive substring of the user's email:
\* some run of the email, character by character and ignoring case, is the pattern.
RuleApplies(rule, u) ==
  /\ "pattern" \in DOMAIN rule
  /\ "email" \in DOMAIN UserDoc(u)
  /\ LET e == UserDoc(u).email
         pt == rule.pattern
     IN \E s \in 1..(Len(e) + 1) :
          /\ s + Len(pt) - 1 <= Len(e)
          /\ \A k \in 1..Len(pt) : LowerChar(e[s + k - 1]) = LowerChar(pt[k])

Resolves(rule) == rule.groupId \in Groups

HasEmail(u) == u # NoUser /\ "email" \in DOMAIN UserDoc(u)

\* Positions of invocation p's log holding the event (o, i, r).
At(p, o, i, r) == {k \in DOMAIN log[p] : log[p][k] = Ev(o, i, r)}

AddsOk(p) == {k \in DOMAIN log[p] : log[p][k].op = "add" /\ log[p][k].res = "ok"}

Tests(p) == {k \in DOMAIN log[p] : log[p][k].op = "test"}

\* The level of a membership, -1 for no membership.
LevelOf(recs) == IF recs = << >> THEN -1 ELSE recs[1]

\* C1: when userCreated completes, the number of addUser calls it made equals
\* the number of rules whose lower-cased pattern is a substring of the
\* lower-cased email and whose groupId resolves; duplicates count separately.
C1_WriteCount ==
  \A p \in Procs :
    (pc[p] = "done" /\ HasEmail(user[p])) =>
      Cardinality(AddsOk(p)) =
        Cardinality({i \in DOMAIN rules[p] :
                       RuleApplies(rules[p][i], user[p]) /\ Resolves(rules[p][i])})

C1_Witness ==
  \E p \in Procs :
    /\ pc[p] = "done"
    /\ user[p] = "u1"
    /\ Len(rules[p]) = 2
    /\ rules[p][1] = rules[p][2]
    /\ rules[p][1] = [pattern |-> <<"A">>, groupId |-> 1, level |-> 1]
    /\ Cardinality(AddsOk(p)) = 2

\* C2: a matching rule whose groupId does not resolve raises nothing, writes
\* nothing, and the scan goes on to the next rule; on completion every later
\* matching rule with a resolvable group has been applied.
C2_DanglingSkipped ==
  \A p \in Procs : \A k \in DOMAIN log[p] :
    (log[p][k].op = "load" /\ log[p][k].res = "none") =>
      LET i == log[p][k].i IN
        /\ At(p, "add", i, "ok") = {}
        /\ At(p, "add", i, "error") = {}
        /\ k = Len(log[p]) => (pc[p] \in {"l19", "done"} /\ idx[p] = i + 1)
        /\ (k < Len(log[p])) => (log[p][k + 1].op = "test" /\ log[p][k + 1].i = i + 1)
        /\ pc[p] = "done" =>
             \A j \in DOMAIN rules[p] :
               (j > i /\ RuleApplies(rules[p][j], user[p]) /\ Resolves(rules[p][j]))
                 => At(p, "add", j, "ok") # {}

C2_Witness ==
  \E p \in Procs :
    /\ pc[p] = "done"
    /\ At(p, "load", 1, "none") # {}
    /\ At(p, "add", 2, "ok") # {}
    /\ members[user[p]][rules[p][2].groupId] # << >>

\* C3: no step leaves two membership records for one (user, group) or lowers
\* a user's level in a group, and once one call for a user has completed, a
\* second call for the same user and rules changes nothing in the store.
C3_Step ==
  /\ \A u \in Users, g \in Groups :
       /\ Len(members'[u][g]) <= 1
       /\ LevelOf(members'[u][g]) >= LevelOf(members[u][g])
  /\ \A p \in Procs, q \in Procs :
       (p # q /\ pc[p] = "done" /\ user[q] = user[p] /\ rules[p] = setting)
         => members'[user[p]] = members[user[p]]

C3_Idempotent == [][C3_Step]_vars

C3_Witness ==
  /\ pc[1] = "done" /\ pc[2] = "done"
  /\ user[1] = "u1" /\ user[2] = "u1"
  /\ Len(setting) = 2
  /\ setting[1].groupId = 1 /\ setting[1].level = 1
  /\ setting[2].groupId = 1 /\ setting[2].level = 0
  /\ Cardinality(AddsOk(1)) = 2 /\ Cardinality(AddsOk(2)) = 2
  /\ members["u1"][1] = <<1>>

\* C4: a user record without an email makes userCreated raise before the rule
\* set is read: no rule is examined, no group resolved, no membership written,
\* and the call never completes normally.
C4_NoEmailFailsFast ==
  \A p \in Procs :
    (user[p] # NoUser /\ ~HasEmail(user[p])) =>
      /\ pc[p] \in {"l17", "raised"}
      /\ log[p] = << >>
      /\ rules[p] = << >>
      /\ members[user[p]] = NoMembers[user[p]]

C4_Witness ==
  \E p \in Procs :
    /\ pc[p] = "raised"
    /\ user[p] = "u3"
    /\ Len(setting) >= 1
    /\ setting[1] = [pattern |-> << >>, groupId |-> 1, level |-> 1]

\* C5: after userCreated completes without error the user is a member of
\* every group named by a rule that matches the email and resolves.
C5_AllMatchesApplied ==
  \A p \in Procs :
    (pc[p] = "done" /\ HasEmail(user[p])) =>
      \A i \in DOMAIN rules[p] :
        (RuleApplies(rules[p][i], user[p]) /\ Resolves(rules[p][i])) =>
          /\ At(p, "add", i, "ok") # {}
          /\ members[user[p]][rules[p][i].groupId] # << >>

C5_Witness ==
  \E p \in Procs :
    /\ pc[p] = "done"
    /\ Len(rules[p]) = 2
    /\ rules[p][1].groupId = 1 /\ rules[p][2].groupId = 2
    /\ members[user[p]][1] # << >>
    /\ members[user[p]][2] # << >>

\* C6 as stated: every examined rule whose pattern is empty or missing is
\* treated as matching.
C6_EmptyOrMissingMatches ==
  \A p \in Procs : \A k \in Tests(p) :
    LET rule == rules[p][log[p][k].i] IN
      ("pattern" \notin DOMAIN rule \/ rule.pattern = << >>) => log[p][k].res = "match"

\* C6 (amended): a rule with an empty pattern matches every email and, when its
\* groupId resolves, the user is added to its group; a rule with no pattern
\* makes userCreated raise when the scan reaches it.
C6_EmptyPatternMatches ==
  \A p \in Procs : \A k \in Tests(p) :
    LET i == log[p][k].i
        rule == rules[p][i]
    IN /\ ("pattern" \in DOMAIN rule /\ rule.pattern = << >>) =>
            /\ log[p][k].res = "match"
            /\ (Resolves(rule) /\ i < idx[p]) =>
                 /\ At(p, "add", i, "ok") # {}
                 /\ members[user[p]][rule.groupId] # << >>
       /\ "pattern" \notin DOMAIN rule =>
            /\ log[p][k].res = "error"
            /\ k = Len(log[p])
            /\ pc[p] = "raised"

C6_Witness ==
  \E p \in Procs :
    /\ pc[p] = "done"
    /\ user[p] = "u2"
    /\ Len(rules[p]) >= 1
    /\ rules[p][1] = [pattern |-> << >>, groupId |-> 2, level |-> 0]
    /\ At(p, "add", 1, "ok") # {}
    /\ members["u2"][2] = <<0>>

\* userCreated run alone from store m for user u over rule list R, from rule i on.
RECURSIVE RunFrom(_, _, _, _)
RunFrom(m, u, R, i) ==
  IF i > Len(R) THEN m
  ELSE IF Matches(R[i], Lower(UserDoc(u).email)) /\ Load(R[i].groupId) # NoGroup
    THEN RunFrom(AddUser(m, Load(R[i].groupId), u, R[i].level), u, R, i + 1)
    ELSE RunFrom(m, u, R, i + 1)

\* C7: two interleaved evaluations for different users end with the store
\* that running them one after the other gives, in either order.
C7_Independent ==
  (pc[1] = "done" /\ pc[2] = "done" /\ user[1] # user[2]
     /\ HasEmail(user[1]) /\ HasEmail(user[2])) =>
    /\ members = RunFrom(RunFrom(NoMembers, user[1], rules[1], 1), user[2], rules[2], 1)
    /\ members = RunFrom(RunFrom(NoMembers, user[2], rules[2], 1), user[1], rules[1], 1)

C7_Witness ==
  /\ pc[1] = "done" /\ pc[2] = "done"
  /\ user[1] = "u2" /\ user[2] = "u1"
  /\ members["u1"][1] # << >>
  /\ members["u2"][1] # << >>
  /\ members["u1"][2] # << >>

\* C8: when addUser raises for rule i the call ends raised at rule i, nothing
\* after it is examined, and the memberships written before it remain.
C8_AddFailurePropagates ==
  \A p \in Procs : \A k \in DOMAIN log[p] :
    (log[p][k].op = "add" /\ log[p][k].res = "error") =>
      /\ k = Len(log[p])
      /\ pc[p] = "raised"
      /\ idx[p] = log[p][k].i
      /\ \A j \in AddsOk(p) :
           LET rule == rules[p][log[p][j].i] IN
             LevelOf(members[user[p]][rule.groupId]) >= rule.level

C8_Witness ==
  \E p \in Procs :
    /\ pc[p] = "raised"
    /\ At(p, "add", 1, "ok") # {}
    /\ At(p, "add", 2, "error") # {}
    /\ members[user[p]][rules[p][1].groupId] # << >>

\* C9: rules are examined one at a time in stored order, each once; a rule's
\* group resolution and write precede anything done for a later rule; the
\* scan ends after the last rule.
C9_Sequential ==
  \A p \in Procs :
    LET L == log[p] IN
      /\ \A k \in DOMAIN L, k2 \in DOMAIN L :
           /\ k < k2 => L[k].i <= L[k2].i
           /\ (k # k2) => ~(L[k].op = L[k2].op /\ L[k].i = L[k2].i)
      /\ \A k \in DOMAIN L :
           /\ L[k].op = "test" => L[k].i = 1 + Cardinality({j \in Tests(p) : j < k})
           /\ L[k].op = "load" => (k > 1 /\ L[k - 1] = Ev("test", L[k].i, "match"))
           /\ L[k].op = "add" => (k > 1 /\ L[k - 1] = Ev("load", L[k].i, "found"))
      /\ pc[p] \in {"l19", "l22", "l24", "done"} => idx[p] <= Len(rules[p]) + 1
      /\ (pc[p] = "done" /\ HasEmail(user[p])) =>
           /\ Cardinality(Tests(p)) = Len(rules[p])
           /\ idx[p] = Len(rules[p]) + 1

C9_Witness ==
  \E p \in Procs :
    /\ pc[p] = "done"
    /\ Len(rules[p]) = 2
    /\ rules[p][1] # rules[p][2]
    /\ log[p] = << Ev("rules", 0, "ok"),
                   Ev("test", 1, "match"), Ev("load", 1, "found"), Ev("add", 1, "ok"),
                   Ev("test", 2, "match"), Ev("load", 2, "found"), Ev("add", 2, "ok") >>

\* C10: a step changes a membership only of the event's user, in the group
\* of a matching rule and to that rule's level; it resolves groups and writes
\* only for matching rules; it never changes the stored rule set.
C10_Step ==
  /\ setting' = setting
  /\ \A u \in Users, g \in Groups :
       members'[u][g] # members[u][g] =>
         \E p \in Procs :
           /\ pc[p] = "l24"
           /\ user[p] = u
           /\ RuleApplies(rules[p][idx[p]], u)
           /\ rules[p][idx[p]].groupId = g
           /\ members'[u][g] = <<rules[p][idx[p]].level>>
  /\ \A p \in Procs :
       (log'[p] # log[p] /\ log'[p][Len(log'[p])].op \in {"load", "add"}) =>
         RuleApplies(rules[p][log'[p][Len(log'[p])].i], user[p])

C10_Frame == [][C10_Step]_vars

C10_Witness ==
  \E p \in Procs :
    /\ pc[p] = "done"
    /\ user[p] = "u2"
    /\ At(p, "test", 1, "skip") # {}
    /\ At(p, "add", 2, "ok") # {}
    /\ members["u1"] = NoMembers["u1"]
    /\ \E q \in Procs : user[q] = "u1" /\ pc[q] = "raised"

====
